---- MODULE Spec2Model ----
(***************************************************************************)
(* Screening-session lifecycle of the TASC API (tasc_main.py): sessions    *)
(* are created for applications, fetched by the candidate, answered and    *)
(* completed.  Tables are sequences of rows in insertion order; the id of  *)
(* a row is its index.  Python strings are sequences of one-character      *)
(* strings so that `in`, lower() and split(',') are computed.  clock is    *)
(* the time completed_at is read from; it advances with every completion.  *)
(* history is a history variable, not program state: for every session id  *)
(* whether its session was completed, and whether its responses or its     *)
(* question set were written to since.  requests holds the requests that   *)
(* are in flight between their load and their commit, for the              *)
(* specifications in which requests interleave.                            *)
(***************************************************************************)
EXTENDS Integers, Sequences, FiniteSets, TLC

VARIABLES question_sets, questions, applications, sessions, responses, clock,
          history, candidates, jobs, screening_sessions, session_candidates,
          job_questions, question_options, requests

vars == <<question_sets, questions, applications, sessions, responses, clock,
          history, candidates, jobs, screening_sessions, session_candidates,
          job_questions, question_options, requests>>

(* ------------------------------ bounds --------------------------------- *)
MaxSessions == 1
MaxQuestions == 1
MaxResponses == 2
MaxCompletions == 2
MaxCandidates == 2
MaxBatchSessions == 2
MaxScreeningSessions == 1
MaxOptions == 3

(* --------------------------- string values ----------------------------- *)
\* Python None, distinct from every string (also from the empty string).
None == <<"None">>

Yes == <<"Y", "e", "s">>
No == <<"N", "o">>
yes == <<"y", "e", "s">>
YesNo == <<"Y", "e", "s", ",", "N", "o">>
Maybe == <<"M", "a", "y", "b", "e">>
NoYes == <<"N", "o", ",", "Y", "e", "s">>
YesNoMaybe == YesNo \o <<",">> \o Maybe
YesNoOneLabel == Yes \o No
yesno == <<"y", "e", "s", ",", "n", "o">>

\* str.lower() on one character
LowerChar(c) ==
    CASE c = "Y" -> "y"
      [] c = "N" -> "n"
      [] c = "E" -> "e"
      [] c = "S" -> "s"
      [] c = "O" -> "o"
      [] OTHER -> c

\* str.lower()
Lower(s) == [i \in DOMAIN s |-> LowerChar(s[i])]

\* Python `sub in s` for strings: sub occurs as a contiguous substring of s
Contains(s, sub) ==
    \E i \in 0..(Len(s) - Len(sub)) :
        \A j \in 1..Len(sub) : s[i + j] = sub[j]

\* str.strip() for blanks
RECURSIVE Strip(_)
Strip(s) ==
    IF s = << >> THEN s
    ELSE IF Head(s) = " " THEN Strip(Tail(s))
    ELSE IF s[Len(s)] = " " THEN Strip(SubSeq(s, 1, Len(s) - 1))
    ELSE s

\* str.split(',')
RECURSIVE SplitComma(_)
SplitComma(s) ==
    IF \E i \in DOMAIN s : s[i] = ","
    THEN LET i == CHOOSE k \in DOMAIN s : s[k] = "," /\ \A m \in 1..(k - 1) : s[m] # ","
         IN  <<SubSeq(s, 1, i - 1)>> \o SplitComma(SubSeq(s, i + 1, Len(s)))
    ELSE <<s>>

\* Python truthiness of an Optional[str]
Truthy(s) == s # None /\ Len(s) > 0

(* ------------------------------- enums --------------------------------- *)
PENDING == "PENDING"
IN_PROGRESS == "IN_PROGRESS"
COMPLETED == "COMPLETED"
InterviewStatus == {PENDING, IN_PROGRESS, COMPLETED}

SELECTED == "SELECTED"
REJECTED == "REJECTED"
ON_HOLD == "ON_HOLD"
NoResult == "NULL"
InterviewResult == {SELECTED, REJECTED, ON_HOLD}

SOURCED == "SOURCED"
SCREENING_PASSED == "SCREENING_PASSED"
SCREENING_FAILED == "SCREENING_FAILED"
RANKED == "RANKED"
ApplicationStatus == {SOURCED, SCREENING_PASSED, SCREENING_FAILED, RANKED, REJECTED}

\* completed_at of a session that was never completed
NoTime == 0

(* ------------------------------ inputs --------------------------------- *)
CandidateIds == {1}
ApplicationIds == {1, 2}
SessionIds == 1..MaxSessions
QuestionIds == 1..MaxQuestions
QuestionTypes == {"mcq_single", "text"}
\* answers submitted under Spec; a request without an answer (None) is not
\* among them, so all_passed never takes its "error" branch here
Answers == {Yes, No}
JobIds == {1, 2}
\* candidate_data.email: a str, possibly empty
Emails == {<< >>, <<"a">>, <<"b">>}
\* what send_prescreening_email returns for one recipient
MailOutcomes == {"Sent", "Failed: smtp"}

(* --------------------------- table lookups ----------------------------- *)
\* A deleted row keeps its place in its table, so that ids are never reused,
\* and references no parent any more.
DeletedJob == [title |-> "deleted"]
DeletedQuestionSet == [job_id |-> 0, name |-> ""]
DeletedQuestion == [set_id |-> 0, question_type |-> "", options |-> None]
DeletedApplication == [job_id |-> 0, candidate_id |-> 0, status |-> "deleted"]
DeletedSession ==
    [application_id |-> 0, set_id |-> 0, status |-> "deleted", result |-> NoResult,
     completed_at |-> NoTime]
DeletedResponse == [session_id |-> 0, question_id |-> 0, answer |-> None]

\* db.get(models.Job, job_id) is not None
JobExists(jid) == jid \in DOMAIN jobs /\ jobs[jid] # DeletedJob

\* db.get(models.QuestionSet, set_id) is not None
QuestionSetExists(qsid) ==
    qsid \in DOMAIN question_sets /\ question_sets[qsid] # DeletedQuestionSet

\* db.get(models.ResponseSession, session_id) is not None
SessionExists(sid) == sid \in DOMAIN sessions /\ sessions[sid] # DeletedSession

QuestionExists(qid) == qid \in DOMAIN questions /\ questions[qid] # DeletedQuestion

ApplicationExists(aid) ==
    aid \in DOMAIN applications /\ applications[aid] # DeletedApplication

\* session.question_set.questions: the questions of the session's set, in
\* row order
QuestionsOfSet(set_id) ==
    SelectSeq([i \in DOMAIN questions |-> [id |-> i, q |-> questions[i]]],
              LAMBDA e : e.q.set_id = set_id)

\* the rows of a responses table that belong to a session, in row order
ResponsesIn(table, sid) ==
    SelectSeq(table, LAMBDA r : r.session_id = sid)

\* session.responses
ResponsesOfSession(sid) == ResponsesIn(responses, sid)

\* the job's question set named "Prescreening" (0 when there is none)
PrescreeningSetOf(job_id) ==
    IF \E i \in DOMAIN question_sets :
           question_sets[i].job_id = job_id /\ question_sets[i].name = "Prescreening"
    THEN CHOOSE i \in DOMAIN question_sets :
           /\ question_sets[i].job_id = job_id
           /\ question_sets[i].name = "Prescreening"
           /\ \A k \in DOMAIN question_sets :
                (question_sets[k].job_id = job_id
                 /\ question_sets[k].name = "Prescreening") => i <= k
    ELSE 0

(* -------------------------------- Init --------------------------------- *)
\* One job whose "Prescreening" set exists and whose default questions have
\* been removed with delete_question, and one SOURCED application of each
\* candidate for it; no session and no response yet.
\* history of a session after a write to its responses or question set
Written(h) == IF h = "none" THEN "none" ELSE "changed"

\* history of a session after a completion: "recompleted" when the session
\* was completed before and nothing was written in between
Completed(h) == IF h \in {"completed", "recompleted"} THEN "recompleted" ELSE "completed"

Init ==
    /\ question_sets = << [job_id |-> 1, name |-> "Prescreening"] >>
    /\ questions = << >>
    /\ applications = [c \in 1..Cardinality(CandidateIds) |->
                          [job_id |-> 1, candidate_id |-> c, status |-> SOURCED]]
    /\ sessions = << >>
    /\ responses = << >>
    /\ clock = 1
    /\ history = [s \in SessionIds |-> "none"]
    /\ candidates = [c \in 1..Cardinality(CandidateIds) |-> [email |-> <<"a">>]]
    /\ jobs = << [title |-> "job"] >>
    /\ screening_sessions = << >>
    /\ session_candidates = << >>
    /\ job_questions = << >>
    /\ question_options = << >>
    /\ requests = << >>

(* ------------------------- employer operations ------------------------- *)
\* len(DEFAULT_PRESET_QUESTIONS)
NumPresetQuestions == 5

\* the Question rows create_job adds for DEFAULT_PRESET_QUESTIONS
PresetQuestions(set_id, options) ==
    [i \in 1..NumPresetQuestions |->
        [set_id |-> set_id, question_type |-> "mcq_single", options |-> options]]

\* create_job when the preset questions are stored without options
create_job_without_options ==
    /\ jobs' = Append(jobs, [title |-> "job"])
    /\ question_sets' = Append(question_sets,
            [job_id |-> Len(jobs) + 1, name |-> "Prescreening"])
    /\ questions' = questions \o PresetQuestions(Len(question_sets) + 1, None)
    /\ UNCHANGED <<requests, applications, sessions, responses, clock, history, candidates,
                   screening_sessions, session_candidates,
                        job_questions, question_options>>

\* POST /jobs/ for a company that exists
create_job ==
    /\ jobs' = Append(jobs, [title |-> "job"])
    /\ question_sets' = Append(question_sets,
            [job_id |-> Len(jobs) + 1, name |-> "Prescreening"])
    /\ questions' = questions \o PresetQuestions(Len(question_sets) + 1, YesNo)
    /\ UNCHANGED <<requests, applications, sessions, responses, clock, history, candidates,
                   screening_sessions, session_candidates,
                        job_questions, question_options>>


\* HTTP status of POST /question-sets/{set_id}/questions
create_question_status(set_id) ==
    IF ~QuestionSetExists(set_id) THEN 404 ELSE 201

\* POST /question-sets/{set_id}/questions
create_question(set_id, question_type) ==
    IF create_question_status(set_id) # 201
    THEN UNCHANGED vars
    ELSE /\ Len(questions) < MaxQuestions
         /\ questions' = Append(questions,
                [set_id |-> set_id,
                 question_type |-> question_type,
                 options |-> IF question_type = "mcq_single" THEN YesNo ELSE None])
         /\ history' = [s \in SessionIds |->
                IF SessionExists(s) /\ sessions[s].set_id = set_id
                THEN Written(history[s]) ELSE history[s]]
         /\ UNCHANGED <<requests, question_sets, applications, sessions, responses, clock,
                        candidates, jobs, screening_sessions, session_candidates,
                        job_questions, question_options>>

\* the rows selected by a query over a set of ids, in row order
RECURSIVE RowsIn(_, _)
RowsIn(ids, n) ==
    IF n = 0 THEN << >>
    ELSE IF n \in ids THEN Append(RowsIn(ids, n - 1), n) ELSE RowsIn(ids, n - 1)

\* models.ResponseSession(application_id=..., set_id=...) with column defaults
NewSession(application_id, set_id) ==
    [application_id |-> application_id, set_id |-> set_id, status |-> PENDING,
     result |-> NoResult, completed_at |-> NoTime]

\* the loop of send_screening_tests over the loaded applications
RECURSIVE AddSessions(_, _)
AddSessions(apps, acc) ==
    IF apps = << >> THEN acc
    ELSE LET a == Head(apps)
             set_id == PrescreeningSetOf(applications[a].job_id)
         IN  IF set_id = 0
             THEN AddSessions(Tail(apps), acc)
             ELSE AddSessions(Tail(apps), Append(acc, NewSession(a, set_id)))

\* HTTP status of POST /send-screening-tests
send_screening_tests_status(application_ids) ==
    IF application_ids = {} THEN 400
    ELSE IF \E a \in application_ids : ~ApplicationExists(a) THEN 404
    ELSE 200

\* POST /send-screening-tests
send_screening_tests(application_ids) ==
    IF send_screening_tests_status(application_ids) # 200
    THEN UNCHANGED vars
    ELSE /\ sessions' = AddSessions(RowsIn(application_ids, Len(applications)), sessions)
         /\ UNCHANGED <<requests, question_sets, questions, applications, responses, clock,
                        history,
                        candidates, jobs, screening_sessions, session_candidates,
                        job_questions, question_options>>

(* --------------------------- setup operations -------------------------- *)
\* HTTP status of POST /candidates/
create_candidate_status(email) ==
    IF \E c \in DOMAIN candidates : candidates[c].email = email THEN 409 ELSE 201

\* POST /candidates/
create_candidate(email) ==
    IF create_candidate_status(email) # 201
    THEN UNCHANGED vars
    ELSE /\ Len(candidates) < MaxCandidates
         /\ candidates' = Append(candidates, [email |-> email])
         /\ UNCHANGED <<requests, question_sets, questions, applications, sessions, responses,
                        clock, history, jobs, screening_sessions, session_candidates,
                        job_questions, question_options>>

\* HTTP status of POST /applications/; 500 is a foreign key of the new row
\* rejecting the insert at commit
create_application_status(job_id, candidate_id) ==
    IF \E a \in DOMAIN applications :
           /\ applications[a].job_id = job_id
           /\ applications[a].candidate_id = candidate_id
    THEN 409
    ELSE IF ~JobExists(job_id) \/ candidate_id \notin DOMAIN candidates THEN 500
    ELSE 201

\* POST /applications/
create_application(job_id, candidate_id, status) ==
    IF create_application_status(job_id, candidate_id) # 201
    THEN UNCHANGED vars
    ELSE /\ applications' = Append(applications,
                [job_id |-> job_id, candidate_id |-> candidate_id, status |-> status])
         /\ UNCHANGED <<requests, question_sets, questions, sessions, responses, clock, history,
                        candidates, jobs, screening_sessions, session_candidates,
                        job_questions, question_options>>

(* ------------------------------ delete_job ----------------------------- *)
\* Job.applications, cascade="all, delete-orphan"
ApplicationsOfJob(job_id) ==
    {a \in DOMAIN applications : applications[a].job_id = job_id}

\* Job.question_sets, cascade="all, delete-orphan"
QuestionSetsOfJob(job_id) ==
    {q \in DOMAIN question_sets : question_sets[q].job_id = job_id}

\* QuestionSet.questions, cascade="all, delete-orphan"
QuestionsOfSets(set_ids) ==
    {i \in DOMAIN questions : questions[i].set_id \in set_ids}

\* Application.response_sessions, cascade="all, delete-orphan"
SessionsOfApplications(application_ids) ==
    {k \in DOMAIN sessions : sessions[k].application_id \in application_ids}

\* QuestionSet.response_sessions, a relationship without a delete cascade
SessionsOfSets(set_ids) ==
    {k \in DOMAIN sessions : sessions[k].set_id \in set_ids}

\* ResponseSession.responses and Question.responses, both
\* cascade="all, delete-orphan"
ResponsesOf(session_ids, question_ids) ==
    {r \in DOMAIN responses :
        \/ responses[r].session_id \in session_ids
        \/ responses[r].question_id \in question_ids}

\* a table with the rows of the given ids deleted
Without(table, ids, deleted) ==
    [i \in DOMAIN table |-> IF i \in ids THEN deleted ELSE table[i]]

\* HTTP status of DELETE /jobs/{job_id}; 500 is the flush failing on a session
\* that is not deleted itself and whose set_id, which is not nullable, the
\* unit of work sets to NULL when it deletes the session's question set
delete_job_status(job_id) ==
    IF /\ JobExists(job_id)
       /\ SessionsOfSets(QuestionSetsOfJob(job_id))
              \ SessionsOfApplications(ApplicationsOfJob(job_id)) # {}
    THEN 500
    ELSE 204

\* delete_job when the responses are deleted with their session only, not
\* with their question
delete_job_responses_by_session(job_id) ==
    IF ~JobExists(job_id) \/ delete_job_status(job_id) # 204
    THEN UNCHANGED vars
    ELSE LET apps == ApplicationsOfJob(job_id)
             sets == QuestionSetsOfJob(job_id)
             sess == SessionsOfApplications(apps)
         IN  /\ jobs' = Without(jobs, {job_id}, DeletedJob)
             /\ applications' = Without(applications, apps, DeletedApplication)
             /\ question_sets' = Without(question_sets, sets, DeletedQuestionSet)
             /\ questions' = Without(questions, QuestionsOfSets(sets), DeletedQuestion)
             /\ sessions' = Without(sessions, sess, DeletedSession)
             /\ responses' = Without(responses, ResponsesOf(sess, {}), DeletedResponse)
             /\ UNCHANGED <<requests, clock, history, candidates, screening_sessions,
                            session_candidates,
                        job_questions, question_options>>

\* DELETE /jobs/{job_id}
delete_job(job_id) ==
    IF ~JobExists(job_id) \/ delete_job_status(job_id) # 204
    THEN UNCHANGED vars
    ELSE LET apps == ApplicationsOfJob(job_id)
             sets == QuestionSetsOfJob(job_id)
             sess == SessionsOfApplications(apps)
             qs == QuestionsOfSets(sets)
         IN  /\ jobs' = Without(jobs, {job_id}, DeletedJob)
             /\ applications' = Without(applications, apps, DeletedApplication)
             /\ question_sets' = Without(question_sets, sets, DeletedQuestionSet)
             /\ questions' = Without(questions, qs, DeletedQuestion)
             /\ sessions' = Without(sessions, sess, DeletedSession)
             /\ responses' = Without(responses, ResponsesOf(sess, qs), DeletedResponse)
             /\ UNCHANGED <<requests, clock, history, candidates, screening_sessions,
                            session_candidates,
                        job_questions, question_options>>

(* --------------------- questions and options (main.py) ----------------- *)
\* models.QuestionType: TEXT, MCQ_SINGLE, MCQ_MULTIPLE
TEXT == "text"
MCQ_SINGLE == "mcq_single"
MCQ_MULTIPLE == "mcq_multiple"

\* a deleted QuestionOption row
DeletedOption == [question_id |-> 0, option_text |-> None]

\* db.get(models.Question, question_id) is not None
JobQuestionExists(question_id) == question_id \in DOMAIN job_questions

\* Question.options: the ids of the stored options of a question
OptionsOfQuestion(question_id) ==
    {o \in DOMAIN question_options : question_options[o].question_id = question_id}

\* HTTP status of POST /jobs/{job_id}/questions/text
create_text_question_status(job_id, question_type) ==
    IF ~JobExists(job_id) THEN 404
    ELSE IF question_type # TEXT THEN 400
    ELSE 201

\* POST /jobs/{job_id}/questions/text
create_text_question(job_id, question_type) ==
    IF create_text_question_status(job_id, question_type) # 201
    THEN UNCHANGED vars
    ELSE /\ Len(job_questions) < MaxQuestions
         /\ job_questions' = Append(job_questions,
                [job_id |-> job_id, question_type |-> question_type])
         /\ UNCHANGED <<requests, question_sets, questions, applications, sessions, responses,
                        clock, history, candidates, jobs, screening_sessions,
                        session_candidates, question_options>>

\* HTTP status of POST /jobs/{job_id}/questions/mcq
create_mcq_question_status(job_id, question_type, options) ==
    IF ~JobExists(job_id) THEN 404
    ELSE IF question_type \notin {MCQ_SINGLE, MCQ_MULTIPLE} THEN 400
    ELSE IF Len(options) < 2 THEN 400
    ELSE 201

\* POST /jobs/{job_id}/questions/mcq
create_mcq_question(job_id, question_type, options) ==
    IF create_mcq_question_status(job_id, question_type, options) # 201
    THEN UNCHANGED vars
    ELSE /\ Len(job_questions) < MaxQuestions
         /\ Len(question_options) + Len(options) <= MaxOptions
         /\ job_questions' = Append(job_questions,
                [job_id |-> job_id, question_type |-> question_type])
         /\ question_options' = question_options \o
                [i \in DOMAIN options |->
                    [question_id |-> Len(job_questions) + 1, option_text |-> options[i]]]
         /\ UNCHANGED <<requests, question_sets, questions, applications, sessions, responses,
                        clock, history, candidates, jobs, screening_sessions,
                        session_candidates>>

\* HTTP status of POST /questions/{question_id}/options
add_option_to_question_status(question_id) ==
    IF ~JobQuestionExists(question_id) THEN 404
    ELSE IF job_questions[question_id].question_type \notin {MCQ_SINGLE, MCQ_MULTIPLE}
    THEN 400
    ELSE 201

\* POST /questions/{question_id}/options
add_option_to_question(question_id, option_text) ==
    IF add_option_to_question_status(question_id) # 201
    THEN UNCHANGED vars
    ELSE /\ Len(question_options) < MaxOptions
         /\ question_options' = Append(question_options,
                [question_id |-> question_id, option_text |-> option_text])
         /\ UNCHANGED <<requests, question_sets, questions, applications, sessions, responses,
                        clock, history, candidates, jobs, screening_sessions,
                        session_candidates, job_questions>>

\* DELETE /options/{option_id}
delete_option(option_id) ==
    IF option_id \notin DOMAIN question_options
       \/ question_options[option_id] = DeletedOption
    THEN UNCHANGED vars
    ELSE /\ question_options' = [question_options EXCEPT ![option_id] = DeletedOption]
         /\ UNCHANGED <<requests, question_sets, questions, applications, sessions, responses,
                        clock, history, candidates, jobs, screening_sessions,
                        session_candidates, job_questions>>

(* ------------------- generated questions (main.py) --------------------- *)
\* content_string, the text the model returns, is either a JSON document or
\* plain text.  A JSON document is kept as its value together with its text,
\* which is the value rendered; json.loads of that text is the value.  Plain
\* text is no JSON: json.loads of it raises JSONDecodeError.
NotJson == [type |-> "JSONDecodeError"]

\* the key "question_text" and another key
QuestionTextKey == <<"q", "u", "e", "s", "t", "i", "o", "n", "_", "t", "e", "x", "t">>
OtherKey == <<"x">>

\* the items of a JSON array: an object with one key, whose value is a string
\* or null, and a bare string
JsonObject(key, value) == [type |-> "dict", key |-> key, value |-> value]
JsonString(value) == [type |-> "str", key |-> << >>, value |-> value]

\* the text of a JSON string, of an item and of an array
RenderString(str) == <<"\"">> \o str \o <<"\"">>

RenderItem(item) ==
    IF item.type = "str" THEN RenderString(item.value)
    ELSE <<"{">> \o RenderString(item.key) \o <<":">>
             \o (IF item.value = None THEN <<"n", "u", "l", "l">>
                 ELSE RenderString(item.value))
             \o <<"}">>

RECURSIVE RenderItems(_)
RenderItems(items) ==
    IF items = << >> THEN << >>
    ELSE IF Len(items) = 1 THEN RenderItem(Head(items))
    ELSE RenderItem(Head(items)) \o <<",">> \o RenderItems(Tail(items))

\* a reply that is a JSON array, and one that is a JSON object
JsonArray(items) ==
    [json |-> [type |-> "list", items |-> items],
     text |-> <<"[">> \o RenderItems(items) \o <<"]">>]
JsonDocument(item) ==
    [json |-> item, text |-> RenderItem(item)]

\* a reply that is plain text
PlainText(text) == [json |-> NotJson, text |-> text]

\* json.loads(content_string)
json_loads(content) == content.json

\* content_string.split('\n')
RECURSIVE SplitLines(_)
SplitLines(str) ==
    IF \E i \in DOMAIN str : str[i] = "\n"
    THEN LET i == CHOOSE k \in DOMAIN str :
                      str[k] = "\n" /\ \A m \in 1..(k - 1) : str[m] # "\n"
         IN  <<SubSeq(str, 1, i - 1)>> \o SplitLines(SubSeq(str, i + 1, Len(str)))
    ELSE <<str>>

\* [line.strip() for line in content_string.split('\n') if '?' in line]
FallbackLines(text) ==
    LET kept == SelectSeq(SplitLines(text), LAMBDA line : Contains(line, <<"?">>))
    IN  [i \in DOMAIN kept |-> Strip(kept[i])]

\* the condition of the list comprehension over parsed_data for one item;
\* "AttributeError" is .strip() of a value that is no string
ItemCondition(item) ==
    IF item.type # "dict" THEN "skip"
    ELSE IF item.key # QuestionTextKey THEN "skip"
    ELSE IF item.value = None THEN "AttributeError"
    ELSE IF Strip(item.value) = << >> THEN "skip"
    ELSE "take"

\* question_texts after the inner try: raised is TRUE when an exception other
\* than JSONDecodeError and TypeError left it
question_texts(content) ==
    LET parsed == json_loads(content)
    IN  IF parsed.type = NotJson.type
        THEN [raised |-> FALSE, texts |-> FallbackLines(content.text)]
        ELSE IF parsed.type # "list"
        THEN [raised |-> FALSE, texts |-> << >>]
        ELSE IF \E i \in DOMAIN parsed.items :
                    ItemCondition(parsed.items[i]) = "AttributeError"
        THEN [raised |-> TRUE, texts |-> << >>]
        ELSE LET taken == SelectSeq(parsed.items,
                              LAMBDA item : ItemCondition(item) = "take")
             IN  [raised |-> FALSE, texts |-> [i \in DOMAIN taken |-> taken[i].value]]

\* HTTP status of POST /jobs/{job_id}/generate-jd-questions/; client is
\* whether ollama_client is set, reached whether the chat call returns
generate_and_store_jd_questions_status(job_id, client, reached, content) ==
    IF ~client THEN 503
    ELSE IF ~JobExists(job_id) THEN 404
    ELSE IF ~reached THEN 500
    ELSE IF question_texts(content).raised THEN 500
    ELSE IF question_texts(content).texts = << >> THEN 500
    ELSE 201

\* POST /jobs/{job_id}/generate-jd-questions/
generate_and_store_jd_questions(job_id, client, reached, content) ==
    IF generate_and_store_jd_questions_status(job_id, client, reached, content) # 201
    THEN UNCHANGED vars
    ELSE LET texts == question_texts(content).texts
         IN  /\ job_questions' = job_questions \o
                    [i \in DOMAIN texts |->
                        [job_id |-> job_id, question_text |-> texts[i],
                         question_type |-> TEXT, is_jd_specific |-> TRUE]]
             /\ UNCHANGED <<question_sets, questions, applications, sessions,
                            responses, clock, history, candidates, jobs,
                            screening_sessions, session_candidates, question_options,
                            requests>>

(* ----------------------- create_screening_session ---------------------- *)
\* the loop of create_screening_session over candidate_ids on the flushed
\* rows: found is FALSE when db.get(models.Candidate, cid) found no row for
\* some cid, links are the SessionCandidate rows flushed until then
RECURSIVE LinkCandidates(_, _, _)
LinkCandidates(candidate_ids, new_session_id, links) ==
    IF candidate_ids = << >> THEN [found |-> TRUE, links |-> links]
    ELSE IF Head(candidate_ids) \notin DOMAIN candidates
         THEN [found |-> FALSE, links |-> links]
         ELSE LinkCandidates(Tail(candidate_ids), new_session_id,
                  Append(links, [session_id |-> new_session_id,
                                 candidate_id |-> Head(candidate_ids)]))

\* HTTP status of POST /screening-sessions/
create_screening_session_status(job_id, candidate_ids) ==
    IF ~JobExists(job_id) THEN 404
    ELSE IF ~LinkCandidates(candidate_ids, Len(screening_sessions) + 1,
                            session_candidates).found
    THEN 404
    ELSE 201

\* create_screening_session without db.rollback(): the rows flushed before
\* the missing candidate was met stay in the transaction and are committed
create_screening_session_no_rollback(job_id, candidate_ids) ==
    IF ~JobExists(job_id)
    THEN UNCHANGED vars
    ELSE LET flushed == Append(screening_sessions, [job_id |-> job_id])
             linked == LinkCandidates(candidate_ids, Len(flushed), session_candidates)
         IN  /\ Len(screening_sessions) < MaxScreeningSessions
             /\ screening_sessions' = flushed
             /\ session_candidates' = linked.links
             /\ UNCHANGED <<requests, question_sets, questions, applications, sessions,
                            responses, clock, history, candidates, jobs,
                        job_questions, question_options>>

\* POST /screening-sessions/
create_screening_session(job_id, candidate_ids) ==
    IF ~JobExists(job_id)
    THEN UNCHANGED vars
    ELSE LET flushed == Append(screening_sessions, [job_id |-> job_id])
             linked == LinkCandidates(candidate_ids, Len(flushed), session_candidates)
         IN  /\ linked.found => Len(screening_sessions) < MaxScreeningSessions
             /\ screening_sessions' = IF linked.found THEN flushed ELSE screening_sessions
             /\ session_candidates' =
                    IF linked.found THEN linked.links ELSE session_candidates
             /\ UNCHANGED <<requests, question_sets, questions, applications, sessions,
                            responses, clock, history, candidates, jobs,
                        job_questions, question_options>>

(* ----------------------------- batch delivery -------------------------- *)
\* the SOURCED applications of a job, in row order
SourcedApplications(job_id) ==
    RowsIn({a \in DOMAIN applications :
                /\ applications[a].job_id = job_id
                /\ applications[a].status = SOURCED},
           Len(applications))

\* application.candidate and application.candidate.email
HasEmail(a) ==
    /\ applications[a].candidate_id \in DOMAIN candidates
    /\ Truthy(candidates[applications[a].candidate_id].email)

\* the key f"AppID: {application.id}" of email_statuses
AppKey(a) == <<"AppID: ", ToString(a)>>

\* email_statuses[key] = value on a dict
Put(d, key, value) ==
    [k \in DOMAIN d \cup {key} |-> IF k = key THEN value ELSE d[k]]

\* the dict email_statuses after the loop over the applications; mail[a] is
\* what send_prescreening_email returns for application a
RECURSIVE email_statuses(_, _, _)
email_statuses(apps, mail, acc) ==
    IF apps = << >> THEN acc
    ELSE LET a == Head(apps)
         IN  IF ~HasEmail(a)
             THEN email_statuses(Tail(apps), mail,
                      Put(acc, AppKey(a), "Failed: Missing candidate data or email address."))
             ELSE email_statuses(Tail(apps), mail,
                      Put(acc, candidates[applications[a].candidate_id].email, mail[a]))

\* the sessions added by the loop over the applications
RECURSIVE BatchSessions(_, _, _)
BatchSessions(apps, set_id, acc) ==
    IF apps = << >> THEN acc
    ELSE IF ~HasEmail(Head(apps))
         THEN BatchSessions(Tail(apps), set_id, acc)
         ELSE BatchSessions(Tail(apps), set_id, Append(acc, NewSession(Head(apps), set_id)))

\* HTTP status of POST /jobs/{job_id}/send-to-sourced
send_to_all_sourced_candidates_status(job_id) ==
    IF SourcedApplications(job_id) = << >> THEN 404
    ELSE IF PrescreeningSetOf(job_id) = 0 THEN 404
    ELSE 200

\* the body of the reply of POST /jobs/{job_id}/send-to-sourced
send_to_all_sourced_candidates_reply(job_id, mail) ==
    email_statuses(SourcedApplications(job_id), mail, << >>)

\* send_to_all_sourced_candidates when a failed delivery raises instead of
\* being reported: nothing is committed
send_to_all_sourced_candidates_aborting(job_id, mail) ==
    IF \/ send_to_all_sourced_candidates_status(job_id) # 200
       \/ \E i \in DOMAIN SourcedApplications(job_id) :
              LET a == SourcedApplications(job_id)[i]
              IN  HasEmail(a) /\ mail[a] # "Sent"
    THEN UNCHANGED vars
    ELSE /\ sessions' = BatchSessions(SourcedApplications(job_id),
                                      PrescreeningSetOf(job_id), sessions)
         /\ UNCHANGED <<requests, question_sets, questions, applications, responses, clock,
                        history, candidates, jobs, screening_sessions,
                        session_candidates,
                        job_questions, question_options>>

\* send_to_all_sourced_candidates when it also moves the invited
\* applications out of SOURCED
send_to_all_sourced_candidates_marking(job_id, mail) ==
    IF send_to_all_sourced_candidates_status(job_id) # 200
    THEN UNCHANGED vars
    ELSE /\ sessions' = BatchSessions(SourcedApplications(job_id),
                                      PrescreeningSetOf(job_id), sessions)
         /\ applications' = [a \in DOMAIN applications |->
                IF applications[a].job_id = job_id /\ applications[a].status = SOURCED
                   /\ HasEmail(a)
                THEN [applications[a] EXCEPT !.status = RANKED]
                ELSE applications[a]]
         /\ UNCHANGED <<requests, question_sets, questions, responses, clock,
                        history, candidates, jobs, screening_sessions,
                        session_candidates,
                        job_questions, question_options>>

\* POST /jobs/{job_id}/send-to-sourced
send_to_all_sourced_candidates(job_id, mail) ==
    IF send_to_all_sourced_candidates_status(job_id) # 200
    THEN UNCHANGED vars
    ELSE /\ sessions' = BatchSessions(SourcedApplications(job_id),
                                      PrescreeningSetOf(job_id), sessions)
         /\ UNCHANGED <<requests, question_sets, questions, applications, responses, clock,
                        history, candidates, jobs, screening_sessions,
                        session_candidates,
                        job_questions, question_options>>

(* ------------------------- candidate operations ------------------------ *)
\* schemas.Question.transform_options_from_orm: the option labels of a
\* stored options string; a value that is no string is passed on unchanged
transform_options_from_orm(v) ==
    IF v = None THEN None
    ELSE SelectSeq([i \in DOMAIN SplitComma(v) |-> Strip(SplitComma(v)[i])],
                   LAMBDA o : o # << >>)

\* get_test_status without the test `not session`: a session that cannot be
\* resolved is served like any other
get_test_status_unchecked(session_id) ==
    IF /\ SessionExists(session_id)
       /\ \E i \in DOMAIN questions :
               /\ questions[i].set_id = sessions[session_id].set_id
               /\ transform_options_from_orm(questions[i].options) = None
    THEN 500
    ELSE 200

\* HTTP status of GET /take-test/{session_id}; 500 is TakeTestPayload refusing
\* a question whose options are None, raised after the status was committed
get_test_status(session_id) ==
    IF \/ ~SessionExists(session_id)
       \/ ~ApplicationExists(sessions[session_id].application_id)
       \/ ~QuestionSetExists(sessions[session_id].set_id)
    THEN 404
    ELSE IF \E i \in DOMAIN questions :
               /\ questions[i].set_id = sessions[session_id].set_id
               /\ transform_options_from_orm(questions[i].options) = None
    THEN 500
    ELSE 200

\* get_test without the test for PENDING: every fetch writes IN_PROGRESS
get_test_any_status(session_id) ==
    IF get_test_status(session_id) = 404
    THEN UNCHANGED vars
    ELSE /\ sessions' = [sessions EXCEPT ![session_id].status = IN_PROGRESS]
         /\ UNCHANGED <<requests, question_sets, questions, applications, responses, clock,
                        history,
                        candidates, jobs, screening_sessions, session_candidates,
                        job_questions, question_options>>

\* get_test with the test `status != IN_PROGRESS` in place of
\* `status == PENDING`
get_test_unless_in_progress(session_id) ==
    IF get_test_status(session_id) = 404
    THEN UNCHANGED vars
    ELSE /\ sessions' = IF sessions[session_id].status # IN_PROGRESS
                        THEN [sessions EXCEPT ![session_id].status = IN_PROGRESS]
                        ELSE sessions
         /\ UNCHANGED <<requests, question_sets, questions, applications, responses, clock,
                        history,
                        candidates, jobs, screening_sessions, session_candidates,
                        job_questions, question_options>>

\* the questions of the TakeTestPayload get_test returns: for every question
\* of the session's set its id and its option labels
get_test_reply(session_id) ==
    LET qs == QuestionsOfSet(sessions[session_id].set_id)
    IN  [i \in DOMAIN qs |->
            [id |-> qs[i].id, options |-> transform_options_from_orm(qs[i].q.options)]]

\* GET /take-test/{session_id}
get_test(session_id) ==
    IF get_test_status(session_id) = 404
    THEN UNCHANGED vars
    ELSE /\ sessions' = IF sessions[session_id].status = PENDING
                        THEN [sessions EXCEPT ![session_id].status = IN_PROGRESS]
                        ELSE sessions
         /\ UNCHANGED <<requests, question_sets, questions, applications, responses, clock,
                        history,
                        candidates, jobs, screening_sessions, session_candidates,
                        job_questions, question_options>>

\* HTTP status of POST /response-sessions/{session_id}/responses; 500 is the
\* foreign key responses.question_id rejecting the insert at commit
submit_response_status(session_id, question_id, answer) ==
    IF ~SessionExists(session_id) THEN 404
    ELSE IF ~QuestionExists(question_id) THEN 500
    ELSE 200

\* POST /response-sessions/{session_id}/responses
submit_response(session_id, question_id, answer) ==
    IF submit_response_status(session_id, question_id, answer) # 200
    THEN UNCHANGED vars
    ELSE /\ responses' = Append(responses,
                [session_id |-> session_id, question_id |-> question_id,
                 answer |-> answer])
         /\ history' = [history EXCEPT ![session_id] = Written(@)]
         /\ UNCHANGED <<requests, question_sets, questions, applications, sessions, clock,
                        candidates, jobs, screening_sessions, session_candidates,
                        job_questions, question_options>>

\* the filter of yes_no_questions in complete_session
IsYesNoQuestion(q) ==
    /\ q.question_type = "mcq_single"
    /\ Truthy(q.options)
    /\ \A opt \in {Yes, No} : Contains(q.options, opt)

\* yes_no_questions of complete_session
yes_no_questions(set_id) ==
    SelectSeq(QuestionsOfSet(set_id), LAMBDA e : IsYesNoQuestion(e.q))

\* next((r for r in session.responses if r.question_id == question.id), None):
\* the matching responses, of which next() takes the first
response_for_question(rs, question_id) ==
    SelectSeq(rs, LAMBDA r : r.question_id = question_id)

\* the evaluation loop of complete_session: "passed" and "failed" are the two
\* values of all_passed, "error" is the AttributeError of None.lower()
RECURSIVE all_passed(_, _)
all_passed(qs, rs) ==
    IF qs = << >> THEN "passed"
    ELSE LET found == response_for_question(rs, Head(qs).id)
         IN  IF found = << >> THEN "failed"
             ELSE IF Head(found).answer = None THEN "error"
             ELSE IF Lower(Head(found).answer) # yes THEN "failed"
             ELSE all_passed(Tail(qs), rs)

\* the evaluation when the responses of a COMPLETED session are not loaded
Evaluate_open_sessions_only(session_id) ==
    all_passed(yes_no_questions(sessions[session_id].set_id),
               IF sessions[session_id].status = COMPLETED
               THEN << >>
               ELSE ResponsesOfSession(session_id))

\* the outcome of the evaluation of a stored session
Evaluate(session_id) ==
    all_passed(yes_no_questions(sessions[session_id].set_id),
               ResponsesOfSession(session_id))

\* HTTP status of POST /response-sessions/{session_id}/complete; 500 is the
\* unhandled exception of the evaluation, after which nothing is committed
complete_session_status(session_id) ==
    IF \/ ~SessionExists(session_id)
       \/ ~ApplicationExists(sessions[session_id].application_id)
    THEN 404
    ELSE IF Evaluate(session_id) = "error" THEN 500
    ELSE 200

\* complete_session without the write of session.status
complete_session_keeps_status(session_id) ==
    IF complete_session_status(session_id) # 200
    THEN UNCHANGED vars
    ELSE LET passed == Evaluate(session_id) = "passed"
             new_status == IF passed THEN SCREENING_PASSED ELSE SCREENING_FAILED
         IN  /\ clock <= MaxCompletions
             /\ applications' =
                    [applications EXCEPT ![sessions[session_id].application_id].status = new_status]
             /\ sessions' = [sessions EXCEPT
                    ![session_id].result = IF passed THEN SELECTED ELSE REJECTED,
                    ![session_id].completed_at = clock]
             /\ clock' = clock + 1
             /\ history' = [history EXCEPT ![session_id] = Completed(@)]
             /\ UNCHANGED <<requests, question_sets, questions, responses,
                        candidates, jobs, screening_sessions, session_candidates,
                        job_questions, question_options>>

\* complete_session without the write of application.status
complete_session_skips_application(session_id) ==
    IF complete_session_status(session_id) # 200
    THEN UNCHANGED vars
    ELSE LET passed == Evaluate(session_id) = "passed"
         IN  /\ clock <= MaxCompletions
             /\ sessions' = [sessions EXCEPT
                    ![session_id].status = COMPLETED,
                    ![session_id].result = IF passed THEN SELECTED ELSE REJECTED,
                    ![session_id].completed_at = clock]
             /\ clock' = clock + 1
             /\ history' = [history EXCEPT ![session_id] = Completed(@)]
             /\ UNCHANGED <<requests, question_sets, questions, applications, responses,
                        candidates, jobs, screening_sessions, session_candidates,
                        job_questions, question_options>>

\* complete_session when the application status is written only for an
\* application that is still SOURCED
complete_session_first_outcome_stays(session_id) ==
    IF complete_session_status(session_id) # 200
    THEN UNCHANGED vars
    ELSE LET passed == Evaluate(session_id) = "passed"
             new_status == IF passed THEN SCREENING_PASSED ELSE SCREENING_FAILED
             application_id == sessions[session_id].application_id
         IN  /\ clock <= MaxCompletions
             /\ applications' =
                    IF applications[application_id].status = SOURCED
                    THEN [applications EXCEPT ![application_id].status = new_status]
                    ELSE applications
             /\ sessions' = [sessions EXCEPT
                    ![session_id].status = COMPLETED,
                    ![session_id].result = IF passed THEN SELECTED ELSE REJECTED,
                    ![session_id].completed_at = clock]
             /\ clock' = clock + 1
             /\ history' = [history EXCEPT ![session_id] = Completed(@)]
             /\ UNCHANGED <<requests, question_sets, questions, responses,
                        candidates, jobs, screening_sessions, session_candidates,
                        job_questions, question_options>>

\* POST /response-sessions/{session_id}/complete
complete_session(session_id) ==
    IF complete_session_status(session_id) # 200
    THEN UNCHANGED vars
    ELSE LET passed == Evaluate(session_id) = "passed"
             new_status == IF passed THEN SCREENING_PASSED ELSE SCREENING_FAILED
         IN  /\ clock <= MaxCompletions
             /\ applications' =
                    [applications EXCEPT ![sessions[session_id].application_id].status = new_status]
             /\ sessions' = [sessions EXCEPT
                    ![session_id].status = COMPLETED,
                    ![session_id].result = IF passed THEN SELECTED ELSE REJECTED,
                    ![session_id].completed_at = clock]
             /\ clock' = clock + 1
             /\ history' = [history EXCEPT ![session_id] = Completed(@)]
             /\ UNCHANGED <<requests, question_sets, questions, responses,
                        candidates, jobs, screening_sessions, session_candidates,
                        job_questions, question_options>>

(* -------------------------- requests in flight ------------------------- *)
\* Every request runs in a database session of its own (database.get_db) and
\* gives way to other requests at each await.  A handler that loads, assigns
\* and commits is two steps here: its load, up to the last statement before
\* `await db.commit()`, and its commit.  The statements of one load are one
\* step, and so are the statements of one commit.

\* requests without the request at position i
Remove(reqs, i) == SubSeq(reqs, 1, i - 1) \o SubSeq(reqs, i + 1, Len(reqs))

\* the flush of a loaded row at commit: an UPDATE that sets the columns whose
\* assigned value differs from the loaded one, on the row as it is stored now
Flush(row, loaded, assigned) ==
    [c \in DOMAIN row |->
        IF c \in DOMAIN assigned /\ assigned[c] # loaded[c] THEN assigned[c] ELSE row[c]]

\* the evaluation loop of complete_session on the rows it loaded
EvaluateLoaded(loaded_questions, loaded_responses) ==
    all_passed(SelectSeq(loaded_questions, LAMBDA e : IsYesNoQuestion(e.q)),
               loaded_responses)

\* complete_session up to `await db.commit()`: the load of the session with
\* its application, questions and responses, the evaluation of the loaded
\* rows and the assignments to the loaded objects
complete_session_load(session_id) ==
    IF complete_session_status(session_id) # 200
    THEN UNCHANGED vars
    ELSE LET loaded == sessions[session_id]
             passed == EvaluateLoaded(QuestionsOfSet(loaded.set_id),
                                      ResponsesOfSession(session_id)) = "passed"
             new_status == IF passed THEN SCREENING_PASSED ELSE SCREENING_FAILED
         IN  /\ clock <= MaxCompletions
             /\ requests' = Append(requests,
                    [op |-> "complete_session",
                     session_id |-> session_id,
                     loaded |-> loaded,
                     responses |-> ResponsesOfSession(session_id),
                     assigned |-> [status |-> COMPLETED,
                                   result |-> IF passed THEN SELECTED ELSE REJECTED,
                                   completed_at |-> clock],
                     application |-> applications[loaded.application_id],
                     application_assigned |-> [status |-> new_status]])
             /\ clock' = clock + 1
             /\ UNCHANGED <<question_sets, questions, applications, sessions,
                            responses, history, candidates, jobs, screening_sessions,
                            session_candidates, job_questions, question_options>>

\* `await db.commit()` of complete_session, for the request at position i
complete_session_commit(i) ==
    LET r == requests[i]
    IN  /\ r.op = "complete_session"
        /\ sessions' = [sessions EXCEPT
               ![r.session_id] = Flush(@, r.loaded, r.assigned)]
        /\ applications' = [applications EXCEPT
               ![r.loaded.application_id] = Flush(@, r.application, r.application_assigned)]
        /\ history' = [history EXCEPT ![r.session_id] = Completed(@)]
        /\ requests' = Remove(requests, i)
        /\ UNCHANGED <<question_sets, questions, responses, clock, candidates, jobs,
                       screening_sessions, session_candidates, job_questions,
                       question_options>>

\* submit_response up to `await db.commit()`: db.get of the session and
\* db.add of the new Response
submit_response_load(session_id, question_id, answer) ==
    IF ~SessionExists(session_id)
    THEN UNCHANGED vars
    ELSE /\ requests' = Append(requests,
                [op |-> "submit_response",
                 session_id |-> session_id,
                 question_id |-> question_id,
                 answer |-> answer])
         /\ UNCHANGED <<question_sets, questions, applications, sessions, responses,
                        clock, history, candidates, jobs, screening_sessions,
                        session_candidates, job_questions, question_options>>

\* `await db.commit()` of submit_response, for the request at position i: the
\* INSERT, which the foreign keys of the new row reject when its session or
\* its question is not stored
submit_response_commit(i) ==
    LET r == requests[i]
    IN  /\ r.op = "submit_response"
        /\ requests' = Remove(requests, i)
        /\ IF submit_response_status(r.session_id, r.question_id, r.answer) # 200
           THEN UNCHANGED <<responses, history>>
           ELSE /\ responses' = Append(responses,
                       [session_id |-> r.session_id, question_id |-> r.question_id,
                        answer |-> r.answer])
                /\ history' = [history EXCEPT ![r.session_id] = Written(@)]
        /\ UNCHANGED <<question_sets, questions, applications, sessions, clock,
                       candidates, jobs, screening_sessions, session_candidates,
                       job_questions, question_options>>

\* get_test up to `await db.commit()`: the load of the session and the
\* assignment of IN_PROGRESS to a session loaded as PENDING; a session loaded
\* in another status is answered without a commit
get_test_load(session_id) ==
    IF get_test_status(session_id) = 404 \/ sessions[session_id].status # PENDING
    THEN UNCHANGED vars
    ELSE /\ requests' = Append(requests,
                [op |-> "get_test",
                 session_id |-> session_id,
                 loaded |-> sessions[session_id],
                 assigned |-> [status |-> IN_PROGRESS]])
         /\ UNCHANGED <<question_sets, questions, applications, sessions, responses,
                        clock, history, candidates, jobs, screening_sessions,
                        session_candidates, job_questions, question_options>>

\* `await db.commit()` of get_test, for the request at position i
get_test_commit(i) ==
    LET r == requests[i]
    IN  /\ r.op = "get_test"
        /\ sessions' = [sessions EXCEPT
               ![r.session_id] = Flush(@, r.loaded, r.assigned)]
        /\ requests' = Remove(requests, i)
        /\ UNCHANGED <<question_sets, questions, applications, responses, clock,
                       history, candidates, jobs, screening_sessions,
                       session_candidates, job_questions, question_options>>

\* an application of the pair is stored
PairStored(job_id, candidate_id) ==
    \E a \in DOMAIN applications :
        /\ applications[a].job_id = job_id
        /\ applications[a].candidate_id = candidate_id

\* create_application up to `await db.commit()`: the SELECT for an existing
\* application of the pair and db.add of the new row
create_application_load(job_id, candidate_id, status) ==
    IF PairStored(job_id, candidate_id)
    THEN UNCHANGED vars
    ELSE /\ requests' = Append(requests,
                [op |-> "create_application",
                 job_id |-> job_id,
                 candidate_id |-> candidate_id,
                 status |-> status])
         /\ UNCHANGED <<question_sets, questions, applications, sessions, responses,
                        clock, history, candidates, jobs, screening_sessions,
                        session_candidates, job_questions, question_options>>

\* the commit of create_application when the table has no constraint
\* _job_candidate_uc
create_application_commit_unconstrained(i) ==
    LET r == requests[i]
    IN  /\ r.op = "create_application"
        /\ requests' = Remove(requests, i)
        /\ applications' =
               IF ~JobExists(r.job_id) \/ r.candidate_id \notin DOMAIN candidates
               THEN applications
               ELSE Append(applications,
                        [job_id |-> r.job_id, candidate_id |-> r.candidate_id,
                         status |-> r.status])
        /\ UNCHANGED <<question_sets, questions, sessions, responses, clock, history,
                       candidates, jobs, screening_sessions, session_candidates,
                       job_questions, question_options>>

\* `await db.commit()` of create_application, for the request at position i:
\* the INSERT, which the constraint _job_candidate_uc and the foreign keys
\* of the new row reject
create_application_commit(i) ==
    LET r == requests[i]
    IN  /\ r.op = "create_application"
        /\ requests' = Remove(requests, i)
        /\ applications' =
               IF create_application_status(r.job_id, r.candidate_id) # 201
               THEN applications
               ELSE Append(applications,
                        [job_id |-> r.job_id, candidate_id |-> r.candidate_id,
                         status |-> r.status])
        /\ UNCHANGED <<question_sets, questions, sessions, responses, clock, history,
                       candidates, jobs, screening_sessions, session_candidates,
                       job_questions, question_options>>

\* create_candidate up to `await db.commit()`: the SELECT for a candidate
\* with the email and db.add of the new row
create_candidate_load(email) ==
    IF create_candidate_status(email) # 201
    THEN UNCHANGED vars
    ELSE /\ requests' = Append(requests, [op |-> "create_candidate", email |-> email])
         /\ UNCHANGED <<question_sets, questions, applications, sessions, responses,
                        clock, history, candidates, jobs, screening_sessions,
                        session_candidates, job_questions, question_options>>

\* `await db.commit()` of create_candidate, for the request at position i: the
\* INSERT into candidates, a table without a constraint on email
create_candidate_commit(i) ==
    LET r == requests[i]
    IN  /\ r.op = "create_candidate"
        /\ Len(candidates) < MaxCandidates
        /\ requests' = Remove(requests, i)
        /\ candidates' = Append(candidates, [email |-> r.email])
        /\ UNCHANGED <<question_sets, questions, applications, sessions, responses,
                       clock, history, jobs, screening_sessions, session_candidates,
                       job_questions, question_options>>

\* HTTP status of PATCH /candidates/{candidate_id}
update_candidate_status(candidate_id) ==
    IF candidate_id \notin DOMAIN candidates THEN 404 ELSE 200

\* PATCH /candidates/{candidate_id} with an email in the body
update_candidate(candidate_id, email) ==
    IF update_candidate_status(candidate_id) # 200
    THEN UNCHANGED vars
    ELSE /\ candidates' = [candidates EXCEPT ![candidate_id].email = email]
         /\ UNCHANGED <<question_sets, questions, applications, sessions, responses,
                        clock, history, jobs, screening_sessions, session_candidates,
                        job_questions, question_options, requests>>

(* -------------------------------- Next --------------------------------- *)
CreateQuestion == \E s \in DOMAIN question_sets, t \in QuestionTypes : create_question(s, t)
SendScreeningTests ==
    \E ids \in SUBSET ApplicationIds :
        /\ Len(sessions) + Cardinality(ids) <= MaxSessions
        /\ send_screening_tests(ids)
GetTest == \E s \in SessionIds : get_test(s)
SubmitResponse ==
    \E s \in SessionIds, q \in QuestionIds, a \in Answers :
        /\ Len(responses) < MaxResponses
        /\ submit_response(s, q, a)
CompleteSession == \E s \in SessionIds : complete_session(s)

Next ==
    \/ CreateQuestion
    \/ SendScreeningTests
    \/ GetTest
    \/ SubmitResponse
    \/ CompleteSession

Spec == Init /\ [][Next]_vars

(* --------------------- batch delivery: specification ------------------- *)
BatchSessionIds == 1..MaxBatchSessions

\* One job with its "Prescreening" set and no question; candidates and
\* applications are created by requests.
InitBatch ==
    /\ question_sets = << [job_id |-> 1, name |-> "Prescreening"] >>
    /\ questions = << >>
    /\ applications = << >>
    /\ sessions = << >>
    /\ responses = << >>
    /\ clock = 1
    /\ history = [s \in BatchSessionIds |-> "none"]
    /\ candidates = << >>
    /\ jobs = << [title |-> "job"] >>
    /\ screening_sessions = << >>
    /\ session_candidates = << >>
    /\ job_questions = << >>
    /\ question_options = << >>
    /\ requests = << >>

CreateCandidate == \E e \in Emails : create_candidate(e)
CreateApplication ==
    \E j \in JobIds, c \in 1..MaxCandidates : create_application(j, c, SOURCED)
SendToAllSourcedCandidates ==
    \E j \in JobIds, mail \in [DOMAIN applications -> MailOutcomes] :
        /\ Len(sessions) + Len(SourcedApplications(j)) <= MaxBatchSessions
        /\ send_to_all_sourced_candidates(j, mail)
SendScreeningTestsBatch ==
    \E ids \in SUBSET ApplicationIds :
        /\ Len(sessions) + Cardinality(ids) <= MaxBatchSessions
        /\ send_screening_tests(ids)
CompleteSessionBatch == \E s \in BatchSessionIds : complete_session(s)

NextBatch ==
    \/ CreateCandidate
    \/ CreateApplication
    \/ SendToAllSourcedCandidates
    \/ SendScreeningTestsBatch
    \/ CompleteSessionBatch

SpecBatch == InitBatch /\ [][NextBatch]_vars

(* ------------------------ delete_job: specification -------------------- *)
\* Two jobs, each with its "Prescreening" set and no question, and one
\* candidate with a SOURCED application for each job.
InitDelete ==
    /\ jobs = << [title |-> "job"], [title |-> "job"] >>
    /\ question_sets = << [job_id |-> 1, name |-> "Prescreening"],
                          [job_id |-> 2, name |-> "Prescreening"] >>
    /\ questions = << >>
    /\ candidates = << [email |-> <<"a">>] >>
    /\ applications = << [job_id |-> 1, candidate_id |-> 1, status |-> SOURCED],
                         [job_id |-> 2, candidate_id |-> 1, status |-> SOURCED] >>
    /\ sessions = << >>
    /\ responses = << >>
    /\ clock = 1
    /\ history = [s \in BatchSessionIds |-> "none"]
    /\ screening_sessions = << >>
    /\ session_candidates = << >>
    /\ job_questions = << >>
    /\ question_options = << >>
    /\ requests = << >>

SubmitResponseDelete ==
    \E s \in BatchSessionIds, q \in QuestionIds :
        /\ Len(responses) < MaxResponses
        /\ submit_response(s, q, Yes)
DeleteJob == \E j \in JobIds : delete_job(j)

NextDelete ==
    \/ CreateQuestion
    \/ SendScreeningTestsBatch
    \/ SubmitResponseDelete
    \/ DeleteJob

SpecDelete == InitDelete /\ [][NextDelete]_vars

(* --------------------- session creation: specification ----------------- *)
RECURSIVE SeqsUpTo(_, _)
\* the lists of at most n different elements of a set
SeqsUpTo(S, n) ==
    IF n = 0 THEN {<< >>}
    ELSE LET shorter == SeqsUpTo(S, n - 1)
         IN  shorter \cup {Append(q, x) : q \in shorter, x \in S}

\* session_data.candidate_ids: lists of different candidate ids, one id more
\* than there can be candidates
CandidateIdLists ==
    {q \in SeqsUpTo(1..(MaxCandidates + 1), 2) :
        \A i, k \in DOMAIN q : q[i] = q[k] => i = k}

CreateScreeningSession ==
    \E j \in JobIds, cids \in CandidateIdLists : create_screening_session(j, cids)

NextCreate ==
    \/ CreateCandidate
    \/ CreateApplication
    \/ SendScreeningTestsBatch
    \/ CreateScreeningSession

SpecCreate == InitBatch /\ [][NextCreate]_vars

(* ------------------ the end-to-end scenario: specification ------------- *)
\* An empty database but for one candidate.  The scenario has one job, one
\* application and one invitation, and every question is answered at most
\* once; the order of the requests is free.
InitTrace ==
    /\ jobs = << >>
    /\ question_sets = << >>
    /\ questions = << >>
    /\ candidates = << [email |-> <<"a">>] >>
    /\ applications = << >>
    /\ sessions = << >>
    /\ responses = << >>
    /\ clock = 1
    /\ history = [s \in SessionIds |-> "none"]
    /\ screening_sessions = << >>
    /\ session_candidates = << >>
    /\ job_questions = << >>
    /\ question_options = << >>
    /\ requests = << >>

PresetQuestionIds == 1..NumPresetQuestions

CreateJobOnce == jobs = << >> /\ create_job
CreateApplicationOnce == create_application(1, 1, SOURCED)
SendOnce ==
    \E mail \in [DOMAIN applications -> MailOutcomes] :
        /\ sessions = << >>
        /\ send_to_all_sourced_candidates(1, mail)
GetTestTrace == get_test(1)
SubmitOnce ==
    \E q \in PresetQuestionIds, a \in Answers :
        /\ SessionExists(1)
        /\ response_for_question(ResponsesOfSession(1), q) = << >>
        /\ submit_response(1, q, a)
CompleteTrace == complete_session(1)

NextTrace ==
    \/ CreateJobOnce
    \/ CreateApplicationOnce
    \/ SendOnce
    \/ GetTestTrace
    \/ SubmitOnce
    \/ CompleteTrace

SpecTrace == InitTrace /\ [][NextTrace]_vars

(* -------------------- question kinds: specification -------------------- *)
\* question_data.question_type
AllQuestionTypes == {TEXT, MCQ_SINGLE, MCQ_MULTIPLE}

\* question_data.options: lists of at most two option texts
OptionLists == SeqsUpTo({Yes, No}, 2)

CreateAnyQuestion ==
    \E s \in DOMAIN question_sets, t \in AllQuestionTypes : create_question(s, t)
CreateTextQuestion ==
    \E j \in JobIds, t \in AllQuestionTypes : create_text_question(j, t)
CreateMcqQuestion ==
    \E j \in JobIds, t \in AllQuestionTypes, o \in OptionLists :
        create_mcq_question(j, t, o)
AddOptionToQuestion ==
    \E q \in QuestionIds, o \in {Yes, No} : add_option_to_question(q, o)
DeleteOption == \E o \in 1..MaxOptions : delete_option(o)

NextQuestions ==
    \/ CreateAnyQuestion
    \/ CreateTextQuestion
    \/ CreateMcqQuestion
    \/ AddOptionToQuestion
    \/ DeleteOption

SpecQuestions == Init /\ [][NextQuestions]_vars

(* ---------------------- answer checks: specification ------------------- *)
\* answers that are an option label, an option label in another letter case,
\* and no option label at all
AnyAnswers == {Yes, yes, Maybe}

SubmitAnyResponse ==
    \E s \in SessionIds, q \in QuestionIds, a \in AnyAnswers :
        /\ Len(responses) < MaxResponses
        /\ submit_response(s, q, a)

NextAnswers ==
    \/ CreateQuestion
    \/ SendScreeningTests
    \/ GetTest
    \/ SubmitAnyResponse
    \/ CompleteSession

SpecAnswers == Init /\ [][NextAnswers]_vars

(* ------------------ interleaved requests: specification ---------------- *)
\* the requests that can be in flight at a time
MaxRequests == 2

LoadCompleteSession ==
    \E s \in SessionIds : Len(requests) < MaxRequests /\ complete_session_load(s)
CommitCompleteSession == \E i \in DOMAIN requests : complete_session_commit(i)
LoadSubmitResponse ==
    \E s \in SessionIds, q \in QuestionIds, a \in Answers :
        /\ Len(requests) < MaxRequests
        /\ Len(responses) + Len(SelectSeq(requests, LAMBDA r : r.op = "submit_response"))
               < MaxResponses
        /\ submit_response_load(s, q, a)
CommitSubmitResponse == \E i \in DOMAIN requests : submit_response_commit(i)
LoadGetTest == \E s \in SessionIds : Len(requests) < MaxRequests /\ get_test_load(s)
CommitGetTest == \E i \in DOMAIN requests : get_test_commit(i)

NextInterleaved ==
    \/ CreateQuestion
    \/ SendScreeningTests
    \/ LoadGetTest
    \/ CommitGetTest
    \/ LoadSubmitResponse
    \/ CommitSubmitResponse
    \/ LoadCompleteSession
    \/ CommitCompleteSession

SpecInterleaved == Init /\ [][NextInterleaved]_vars

(* ----------------- interleaved applications: specification ------------- *)
LoadCreateApplication ==
    \E j \in JobIds, c \in 1..MaxCandidates :
        Len(requests) < MaxRequests /\ create_application_load(j, c, SOURCED)
CommitCreateApplication == \E i \in DOMAIN requests : create_application_commit(i)

NextApplications ==
    \/ CreateCandidate
    \/ CreateApplication
    \/ LoadCreateApplication
    \/ CommitCreateApplication

SpecApplications == InitBatch /\ [][NextApplications]_vars

(* -------------------- stored options: specification -------------------- *)
\* questions.options is a Text column: the values a stored question can hold
\* whatever wrote the row: NULL, the labels Yes and No in either order, in
\* lower case, as one label, alone, and followed by a third label
StoredOptions == {None, YesNo, NoYes, yesno, YesNoOneLabel, Yes, YesNoMaybe}

\* One question of any kind and with any stored options in the job's
\* "Prescreening" set, and one SOURCED application.
InitOptions ==
    /\ question_sets = << [job_id |-> 1, name |-> "Prescreening"] >>
    /\ \E t \in AllQuestionTypes, o \in StoredOptions :
          questions = << [set_id |-> 1, question_type |-> t, options |-> o] >>
    /\ applications = << [job_id |-> 1, candidate_id |-> 1, status |-> SOURCED] >>
    /\ sessions = << >>
    /\ responses = << >>
    /\ clock = 1
    /\ history = [s \in SessionIds |-> "none"]
    /\ candidates = << [email |-> <<"a">>] >>
    /\ jobs = << [title |-> "job"] >>
    /\ screening_sessions = << >>
    /\ session_candidates = << >>
    /\ job_questions = << >>
    /\ question_options = << >>
    /\ requests = << >>

NextOptions ==
    \/ SendScreeningTests
    \/ SubmitResponse
    \/ CompleteSession

SpecOptions == InitOptions /\ [][NextOptions]_vars

(* ------------------ sessions side by side: specification --------------- *)
\* One question of any kind and with any stored options in the job's
\* "Prescreening" set, and two candidates with a SOURCED application each.
InitPairs ==
    /\ question_sets = << [job_id |-> 1, name |-> "Prescreening"] >>
    /\ \E t \in AllQuestionTypes, o \in StoredOptions :
          questions = << [set_id |-> 1, question_type |-> t, options |-> o] >>
    /\ applications = << [job_id |-> 1, candidate_id |-> 1, status |-> SOURCED],
                         [job_id |-> 1, candidate_id |-> 2, status |-> SOURCED] >>
    /\ sessions = << >>
    /\ responses = << >>
    /\ clock = 1
    /\ history = [s \in BatchSessionIds |-> "none"]
    /\ candidates = << [email |-> <<"a">>], [email |-> <<"b">>] >>
    /\ jobs = << [title |-> "job"] >>
    /\ screening_sessions = << >>
    /\ session_candidates = << >>
    /\ job_questions = << >>
    /\ question_options = << >>
    /\ requests = << >>

SubmitResponsePairs ==
    \E s \in BatchSessionIds, q \in QuestionIds, a \in Answers :
        /\ Len(responses) < MaxResponses
        /\ submit_response(s, q, a)

NextPairs ==
    \/ SendScreeningTestsBatch
    \/ SubmitResponsePairs
    \/ CompleteSessionBatch

SpecPairs == InitPairs /\ [][NextPairs]_vars

(* ------------------ generated questions: specification ----------------- *)
\* the question rows that can be stored
MaxGenerated == 4

\* the items of the arrays the model returns: a question, a blank question,
\* a null question, an object with another key and a bare string
ArrayItems ==
    {JsonObject(QuestionTextKey, <<"A", "?">>),
     JsonObject(QuestionTextKey, <<" ">>),
     JsonObject(QuestionTextKey, None),
     JsonObject(OtherKey, <<"A", "?">>),
     JsonString(<<"A", "?">>)}

\* the replies of the model: JSON arrays of at most two items, a JSON object,
\* and the plain texts "1. A?\n B? ", "ok\n1. A?", " B? ", "ok" and ""
Contents ==
    {JsonArray(items) : items \in SeqsUpTo(ArrayItems, 2)}
        \cup {JsonDocument(JsonObject(OtherKey, <<"A", "?">>))}
        \cup {PlainText(text) : text \in {<<"1", ".", " ", "A", "?", "\n", " ", "B", "?", " ">>, <<"o", "k", "\n", "1", ".", " ", "A", "?">>, <<" ", "B", "?", " ">>, <<"o", "k">>, << >>}}

GenerateAndStoreJdQuestions ==
    \E j \in JobIds, client \in BOOLEAN, reached \in BOOLEAN, content \in Contents :
        /\ Len(job_questions) + Len(question_texts(content).texts) <= MaxGenerated
        /\ generate_and_store_jd_questions(j, client, reached, content)

NextGenerate ==
    \/ GenerateAndStoreJdQuestions

SpecGenerate == Init /\ [][NextGenerate]_vars

(* ------------------ interleaved candidates: specification -------------- *)
LoadCreateCandidate ==
    \E e \in Emails : Len(requests) < MaxRequests /\ create_candidate_load(e)
CommitCreateCandidate == \E i \in DOMAIN requests : create_candidate_commit(i)
UpdateCandidate ==
    \E c \in 1..MaxCandidates, e \in Emails : update_candidate(c, e)

NextCandidates ==
    \/ CreateCandidate
    \/ LoadCreateCandidate
    \/ CommitCreateCandidate
    \/ UpdateCandidate
    \/ CreateApplication

SpecCandidates == InitBatch /\ [][NextCandidates]_vars

(* -------------------- repeat invitations: specification ---------------- *)
\* One Yes/No question in the job's "Prescreening" set and one SOURCED
\* application, which is invited again and again.
InitRepeat ==
    /\ question_sets = << [job_id |-> 1, name |-> "Prescreening"] >>
    /\ questions = << [set_id |-> 1, question_type |-> "mcq_single", options |-> YesNo] >>
    /\ applications = << [job_id |-> 1, candidate_id |-> 1, status |-> SOURCED] >>
    /\ sessions = << >>
    /\ responses = << >>
    /\ clock = 1
    /\ history = [s \in BatchSessionIds |-> "none"]
    /\ candidates = << [email |-> <<"a">>] >>
    /\ jobs = << [title |-> "job"] >>
    /\ screening_sessions = << >>
    /\ session_candidates = << >>
    /\ job_questions = << >>
    /\ question_options = << >>
    /\ requests = << >>

SendToAllSourcedRepeat ==
    \E mail \in [DOMAIN applications -> MailOutcomes] :
        /\ Len(sessions) + Len(SourcedApplications(1)) <= MaxBatchSessions
        /\ send_to_all_sourced_candidates(1, mail)

NextRepeat ==
    \/ SendToAllSourcedRepeat
    \/ SendScreeningTestsBatch
    \/ SubmitResponsePairs
    \/ CompleteSessionBatch

SpecRepeat == InitRepeat /\ [][NextRepeat]_vars

(* ---------------------- absent answers: specification ------------------ *)
\* response_data.answer: Optional[str] = None, so a request can leave the
\* answer out
NullableAnswers == {Yes, None}

SubmitNullableResponse ==
    \E s \in SessionIds, q \in QuestionIds, a \in NullableAnswers :
        /\ Len(responses) < MaxResponses
        /\ submit_response(s, q, a)

NextNullable ==
    \/ CreateQuestion
    \/ SendScreeningTests
    \/ GetTest
    \/ SubmitNullableResponse
    \/ CompleteSession

SpecNullable == Init /\ [][NextNullable]_vars

(* ======================= the session state machine ===================== *)
\* position of a status in PENDING -> IN_PROGRESS -> COMPLETED
Rank(status) ==
    CASE status = PENDING -> 0
      [] status = IN_PROGRESS -> 1
      [] status = COMPLETED -> 2

\* C1: under whole requests a session's status never moves backwards: once
\* IN_PROGRESS it is never PENDING again, once COMPLETED it stays COMPLETED.
C1_StatusNeverBackwards ==
    [][\A s \in DOMAIN sessions :
          Rank(sessions'[s].status) >= Rank(sessions[s].status)]_vars

\* a COMPLETED session that was fetched, answered and completed again since
C1_Witness ==
    \E s \in DOMAIN sessions :
        /\ sessions[s].status = COMPLETED
        /\ history[s] = "recompleted"
        /\ ResponsesOfSession(s) # << >>

C3_OnlyAdjacentTransitions ==
    [][\A s \in DOMAIN sessions :
          sessions'[s].status # sessions[s].status =>
              \/ /\ sessions[s].status = PENDING
                 /\ sessions'[s].status = IN_PROGRESS
                 /\ get_test(s)
              \/ /\ sessions[s].status = IN_PROGRESS
                 /\ sessions'[s].status = COMPLETED
                 /\ complete_session(s)]_vars

(* ============================== get_test ================================ *)
\* C11: get_test moves a session from PENDING to IN_PROGRESS on its first
\* fetch only; a get_test on a session that is IN_PROGRESS or COMPLETED
\* changes neither its status nor its result nor completed_at.
C11_LaterFetchChangesNothing ==
    \A s \in DOMAIN sessions :
        sessions[s].status \in {IN_PROGRESS, COMPLETED} =>
            ~ENABLED (get_test(s) /\ sessions'[s] # sessions[s])

\* a COMPLETED session with a result, and the fetch of it is served
C11_Witness ==
    \E s \in DOMAIN sessions :
        /\ sessions[s].status = COMPLETED
        /\ sessions[s].result # NoResult
        /\ get_test_status(s) = 200

\* the session, its application or its question set is not there
Unresolved(s) ==
    \/ ~SessionExists(s)
    \/ ~ApplicationExists(sessions[s].application_id)
    \/ ~QuestionSetExists(sessions[s].set_id)

\* C12: when the session, its application or its question set cannot be
\* resolved, get_test answers NOT_FOUND and changes no stored state.
C12_NotFoundChangesNothing ==
    \A s \in SessionIds :
        Unresolved(s) =>
            /\ get_test_status(s) = 404
            /\ ~ENABLED (get_test(s) /\ vars' # vars)

\* a fetch of a session id that does not exist while questions are stored
C12_Witness ==
    \E s \in SessionIds :
        /\ ~SessionExists(s)
        /\ get_test_status(s) = 404
        /\ questions # << >>

(* ============================ the evaluation =========================== *)
\* a gating question: single choice with the option set exactly {Yes, No}
IsGating(q) ==
    /\ q.question_type = "mcq_single"
    /\ q.options # None
    /\ LET opts == transform_options_from_orm(q.options)
       IN  {opts[i] : i \in DOMAIN opts} = {Yes, No}

\* every gating question of the session's set has a response of the session
\* whose answer is "yes" in any letter case
AllGatingAnsweredYes(s) ==
    \A i \in DOMAIN questions :
        (questions[i].set_id = sessions[s].set_id /\ IsGating(questions[i])) =>
            \E k \in DOMAIN responses :
                /\ responses[k].session_id = s
                /\ responses[k].question_id = i
                /\ responses[k].answer # None
                /\ Lower(responses[k].answer) = yes

\* the application status that goes with a session result
StatusFor(result) ==
    IF result = SELECTED THEN SCREENING_PASSED ELSE SCREENING_FAILED

\* a step that is a successful complete_session of session s
Completes(s) ==
    /\ sessions'[s] # sessions[s]
    /\ complete_session_status(s) = 200
    /\ complete_session(s)

\* C4: complete_session yields SELECTED (application SCREENING_PASSED) if and
\* only if every gating question has a response whose answer is "yes" in any
\* letter case, and REJECTED (SCREENING_FAILED) otherwise; with no gating
\* question the result is SELECTED.
C4_SelectedIffAllGatingYes ==
    [][\A s \in DOMAIN sessions :
          Completes(s) =>
              LET expected == IF AllGatingAnsweredYes(s) THEN SELECTED ELSE REJECTED
              IN  /\ sessions'[s].result = expected
                  /\ applications'[sessions[s].application_id].status = StatusFor(expected)]_vars

\* the writes of a completion are all there or all missing
NoPartialCompletion ==
    \A s \in DOMAIN sessions :
        /\ sessions[s].status = COMPLETED <=> sessions[s].result \in {SELECTED, REJECTED}
        /\ sessions[s].status = COMPLETED <=> sessions[s].completed_at # NoTime

CompletesAgainUnchanged(s) ==
    /\ sessions[s].status = COMPLETED
    /\ history[s] \in {"completed", "recompleted"}
    /\ Completes(s)

\* C6: a second complete_session on a session whose responses and question
\* set did not change yields the same result and the same application status.
C6_RecompletionSameOutcome ==
    [][\A s \in DOMAIN sessions :
          CompletesAgainUnchanged(s) =>
              /\ sessions'[s].result = sessions[s].result
              /\ applications'[sessions[s].application_id].status
                     = StatusFor(sessions[s].result)]_vars

\* a session with an answered gating question, completed twice in a row
C6_Witness ==
    \E s \in DOMAIN sessions :
        /\ history[s] = "recompleted"
        /\ yes_no_questions(sessions[s].set_id) # << >>
        /\ ResponsesOfSession(s) # << >>
        /\ sessions[s].result \in {SELECTED, REJECTED}

\* C7: a second complete_session on a COMPLETED, unchanged session does not
\* change completed_at.
C7_RecompletionKeepsTimestamp ==
    [][\A s \in DOMAIN sessions :
          CompletesAgainUnchanged(s) =>
              sessions'[s].completed_at = sessions[s].completed_at]_vars

(* ========================= the response collector ====================== *)
\* C8: submit_response on a COMPLETED session is rejected with a VALIDATION
\* error and stores no response; the responses of a COMPLETED session never
\* grow.
C8_NoResponseAfterCompletion ==
    [][\A s \in DOMAIN sessions :
          sessions[s].status = COMPLETED =>
              /\ \A q \in QuestionIds, a \in Answers :
                    submit_response(s, q, a) => submit_response_status(s, q, a) = 400
              /\ Len(ResponsesIn(responses', s)) <= Len(ResponsesIn(responses, s))]_vars

\* C9: there is at most one stored response for each (session, question).
C9_OneResponsePerPair ==
    \A i, k \in DOMAIN responses :
        (/\ responses[i].session_id = responses[k].session_id
         /\ responses[i].question_id = responses[k].question_id) => i = k

\* C10: after a submit_response for a (session, question) pair the answer
\* stored for the pair, and the one complete_session evaluates, is the answer
\* of that latest submission.
C10_ResubmitReplaces ==
    [][\A s \in SessionIds, q \in QuestionIds, a \in Answers :
          (submit_response_status(s, q, a) = 200 /\ submit_response(s, q, a)) =>
              LET stored == response_for_question(ResponsesIn(responses', s), q)
              IN  /\ \A i \in DOMAIN stored : stored[i].answer = a
                  /\ Head(stored).answer = a]_vars

(* ============================ batch delivery =========================== *)
\* the sessions of a table that were added after the first n rows and are
\* new PENDING sessions of application a against question set set_id
NewSessionsFor(table, n, a, set_id) ==
    {k \in (n + 1)..Len(table) : table[k] = NewSession(a, set_id)}

\* C13: send_to_all_sourced_candidates on a job with N SOURCED applications
\* creates a new PENDING session against the job's Prescreening set for each
\* of the N applications, also for one whose candidate has no usable email.
C13_SessionForEverySourced ==
    [][\A j \in JobIds, mail \in [DOMAIN applications -> MailOutcomes] :
          (send_to_all_sourced_candidates_status(j) = 200
           /\ send_to_all_sourced_candidates(j, mail)) =>
              /\ Len(sessions') = Len(sessions) + Len(SourcedApplications(j))
              /\ \A i \in DOMAIN SourcedApplications(j) :
                    NewSessionsFor(sessions', Len(sessions),
                                   SourcedApplications(j)[i], PrescreeningSetOf(j)) # {}]_vars

\* the key under which the outcome of application a is reported
OutcomeKey(a) ==
    IF HasEmail(a) THEN candidates[applications[a].candidate_id].email ELSE AppKey(a)

\* every SOURCED application of job j has exactly one entry in the reply:
\* what the mail collaborator returned, or the missing-email failure
OneOutcomeEach(j, mail) ==
    LET apps == SourcedApplications(j)
        reply == send_to_all_sourced_candidates_reply(j, mail)
    IN  /\ DOMAIN reply = {OutcomeKey(apps[i]) : i \in DOMAIN apps}
        /\ Cardinality(DOMAIN reply) = Len(apps)
        /\ \A i \in DOMAIN apps :
              reply[OutcomeKey(apps[i])] =
                  IF HasEmail(apps[i]) THEN mail[apps[i]]
                  ELSE "Failed: Missing candidate data or email address."

\* every SOURCED application of job j with an email has exactly one new
\* session in the table
OthersGetSessions(j, table) ==
    \A i \in DOMAIN SourcedApplications(j) :
        LET a == SourcedApplications(j)[i]
        IN  HasEmail(a) =>
                Cardinality(NewSessionsFor(table, Len(sessions), a, PrescreeningSetOf(j))) = 1

C15_StatusChangesOnlyOnCompletion ==
    [][/\ \A a \in DOMAIN applications :
             applications'[a].status # applications[a].status =>
                 /\ applications'[a].status \in {SCREENING_PASSED, SCREENING_FAILED}
                 /\ \E s \in DOMAIN sessions :
                       sessions[s].application_id = a /\ Completes(s)
       /\ \A j \in JobIds, mail \in [DOMAIN applications -> MailOutcomes] :
             send_to_all_sourced_candidates(j, mail) => applications' = applications
       /\ \A ids \in SUBSET ApplicationIds :
             send_screening_tests(ids) => applications' = applications]_vars

\* two invited applications: one still SOURCED with a PENDING session, the
\* other one SCREENING_PASSED by the completion of its session
C15_Witness ==
    \E a, b \in DOMAIN applications :
        /\ applications[a].status = SOURCED
        /\ \E k \in DOMAIN sessions :
              sessions[k].application_id = a /\ sessions[k].status = PENDING
        /\ applications[b].status = SCREENING_PASSED
        /\ \E k \in DOMAIN sessions :
              sessions[k].application_id = b /\ sessions[k].status = COMPLETED

(* ============================== delete_job ============================= *)
\* every stored row references parents that are stored
NoOrphan ==
    /\ \A i \in DOMAIN question_sets :
          QuestionSetExists(i) => JobExists(question_sets[i].job_id)
    /\ \A i \in DOMAIN questions :
          QuestionExists(i) => QuestionSetExists(questions[i].set_id)
    /\ \A i \in DOMAIN applications :
          ApplicationExists(i) => JobExists(applications[i].job_id)
    /\ \A i \in DOMAIN sessions :
          SessionExists(i) => /\ ApplicationExists(sessions[i].application_id)
                              /\ QuestionSetExists(sessions[i].set_id)
    /\ \A i \in DOMAIN responses :
          responses[i] # DeletedResponse =>
              /\ SessionExists(responses[i].session_id)
              /\ QuestionExists(responses[i].question_id)

\* the ids of the rows of a table that are stored
Stored(table, deleted) == {i \in DOMAIN table : table[i] # deleted}

\* C16: after a job is deleted none of its question sets, questions,
\* applications, sessions and responses remains, the rows of other jobs are
\* all still there, and in every reachable state every stored row references
\* stored parents.
C16_DeleteJobLeavesNoOrphan ==
    /\ []NoOrphan
    /\ [][\A j \in JobIds :
             (JobExists(j) /\ delete_job(j)) =>
                 LET sets == QuestionSetsOfJob(j)
                     apps == ApplicationsOfJob(j)
                     qs == QuestionsOfSets(sets)
                     sess == SessionsOfApplications(apps) \cup SessionsOfSets(sets)
                     rs == ResponsesOf(sess, qs)
                 IN  /\ ~JobExists(j)'
                     /\ Stored(question_sets', DeletedQuestionSet)
                            = Stored(question_sets, DeletedQuestionSet) \ sets
                     /\ Stored(questions', DeletedQuestion)
                            = Stored(questions, DeletedQuestion) \ qs
                     /\ Stored(applications', DeletedApplication)
                            = Stored(applications, DeletedApplication) \ apps
                     /\ Stored(sessions', DeletedSession)
                            = Stored(sessions, DeletedSession) \ sess
                     /\ Stored(responses', DeletedResponse)
                            = Stored(responses, DeletedResponse) \ rs]_vars

\* job 1 is deleted with all its rows while a session of job 2, with a
\* response, is stored
C16_Witness ==
    /\ ~JobExists(1)
    /\ JobExists(2)
    /\ \E k \in DOMAIN sessions : sessions[k] = DeletedSession
    /\ \E k \in DOMAIN responses : responses[k] = DeletedResponse
    /\ \E k \in DOMAIN responses : responses[k] # DeletedResponse

(* ============================ answer checks ============================ *)
\* the option identifiers of a stored question
OptionSet(q) ==
    IF q.options = None THEN {}
    ELSE LET opts == transform_options_from_orm(q.options)
         IN  {opts[i] : i \in DOMAIN opts}

\* the answer names an option of the question, in any letter case
NamesAnOption(q, answer) ==
    \E o \in OptionSet(q) : Lower(o) = Lower(answer)

\* C17: submit_response for a single-choice or multiple-choice question with
\* an answer that references an option identifier outside the question's
\* option set fails with a VALIDATION error and stores no response.
C17_UnknownOptionRejected ==
    [][\A s \in SessionIds, q \in QuestionIds, a \in AnyAnswers :
          (/\ SessionExists(s)
           /\ QuestionExists(q)
           /\ questions[q].question_type \in {"mcq_single", "mcq_multiple"}
           /\ ~NamesAnOption(questions[q], a)
           /\ submit_response(s, q, a)) =>
              /\ submit_response_status(s, q, a) = 400
              /\ responses' = responses]_vars

(* =========================== session creation ========================== *)
\* C18: session creation is all-or-nothing on NOT_FOUND: a
\* create_screening_session with a candidate id that does not exist and a
\* send_screening_tests with an application id that does not exist answer
\* NOT_FOUND, and no session and no candidate link of the request is stored.
C18_NotFoundStoresNothing ==
    /\ \A j \in JobIds, cids \in CandidateIdLists :
          (JobExists(j) /\ \E i \in DOMAIN cids : cids[i] \notin DOMAIN candidates) =>
              /\ create_screening_session_status(j, cids) = 404
              /\ ~ENABLED (create_screening_session(j, cids) /\ vars' # vars)
    /\ \A ids \in SUBSET ApplicationIds :
          (\E a \in ids : ~ApplicationExists(a)) =>
              /\ send_screening_tests_status(ids) = 404
              /\ ~ENABLED (send_screening_tests(ids) /\ vars' # vars)

\* a request whose first candidate exists and whose second does not, and one
\* whose first application exists and whose second does not, while sessions
\* of earlier requests are stored
C18_Witness ==
    /\ Len(candidates) = 1
    /\ create_screening_session_status(1, <<1, 2>>) = 404
    /\ Len(applications) = 1
    /\ send_screening_tests_status({1, 2}) = 404
    /\ session_candidates # << >>
    /\ sessions # << >>

(* ======================== the end-to-end scenario ====================== *)
\* the session has a response "Yes" to each of the questions of its set, and
\* no other response
AllAnsweredYes(s) ==
    LET qs == QuestionsOfSet(sessions[s].set_id)
        rs == ResponsesOfSession(s)
    IN  /\ \A i \in DOMAIN qs : response_for_question(rs, qs[i].id) # << >>
        /\ \A i \in DOMAIN rs : rs[i].answer = Yes

\* C19: create_job creates a Prescreening set with 5 single-choice Yes/No
\* questions; with one SOURCED application send_to_all_sourced_candidates
\* creates one PENDING session; get_test moves it to IN_PROGRESS and returns
\* the 5 questions; once "Yes" is submitted for all 5, complete_session
\* leaves the application SCREENING_PASSED and the session SELECTED and
\* COMPLETED.
C19_EndToEnd ==
    [][/\ create_job =>
             LET set_id == Len(question_sets')
                 qs == SelectSeq(questions', LAMBDA q : q.set_id = set_id)
             IN  /\ question_sets'[set_id] = [job_id |-> Len(jobs'), name |-> "Prescreening"]
                 /\ Len(question_sets') = Len(question_sets) + 1
                 /\ Len(qs) = 5
                 /\ \A i \in DOMAIN qs : IsGating(qs[i])
       /\ \A mail \in [DOMAIN applications -> MailOutcomes] :
             (/\ Len(SourcedApplications(1)) = 1
              /\ send_to_all_sourced_candidates_status(1) = 200
              /\ send_to_all_sourced_candidates(1, mail)) =>
                 /\ Len(sessions') = Len(sessions) + 1
                 /\ sessions'[Len(sessions')].status = PENDING
                 /\ sessions'[Len(sessions')].application_id = SourcedApplications(1)[1]
       /\ \A s \in DOMAIN sessions :
             (sessions[s].status = PENDING /\ get_test(s)) =>
                 /\ get_test_status(s) = 200
                 /\ sessions'[s].status = IN_PROGRESS
                 /\ Len(get_test_reply(s)) = 5
                 /\ \A i \in DOMAIN get_test_reply(s) :
                       get_test_reply(s)[i].options = <<Yes, No>>
       /\ \A s \in DOMAIN sessions :
             (AllAnsweredYes(s) /\ sessions[s].status = IN_PROGRESS /\ complete_session(s)) =>
                 /\ complete_session_status(s) = 200
                 /\ applications'[sessions[s].application_id].status = SCREENING_PASSED
                 /\ sessions'[s].result = SELECTED
                 /\ sessions'[s].status = COMPLETED]_vars

\* the end of the scenario: five questions, each answered Yes once, the
\* session COMPLETED and SELECTED, the application SCREENING_PASSED
C19_Witness ==
    /\ Len(questions) = 5
    /\ Len(responses) = 5
    /\ SessionExists(1)
    /\ AllAnsweredYes(1)
    /\ sessions[1].status = COMPLETED
    /\ sessions[1].result = SELECTED
    /\ sessions[1].completed_at # NoTime
    /\ applications[1].status = SCREENING_PASSED

(* ============================ question kinds =========================== *)
\* the kind of a stored question agrees with its option list: empty for a
\* text question, not empty for a choice question
KindAgreesWithOptions(question_type, option_set) ==
    /\ question_type = TEXT => option_set = {}
    /\ question_type \in {MCQ_SINGLE, MCQ_MULTIPLE} => option_set # {}

\* the questions and options stored by main.py agree
JobQuestionsAgree ==
    \A q \in DOMAIN job_questions :
        KindAgreesWithOptions(job_questions[q].question_type, OptionsOfQuestion(q))

\* C20: in every state reached through the question and option operations a
\* TEXT question has an empty option list and a single-choice or
\* multiple-choice question has a non-empty option list.
C20_KindAgreesWithOptions ==
    /\ \A q \in DOMAIN questions :
          QuestionExists(q) =>
              KindAgreesWithOptions(questions[q].question_type, OptionSet(questions[q]))
    /\ JobQuestionsAgree

(* ========================= interleaved requests ======================== *)
\* C21: a complete_session and a submit_response on the same session
\* serialize: whenever a completion commits, the responses its evaluation
\* loaded are all the responses of the session that are stored at that
\* moment, so that no COMPLETED session has a result computed without a
\* response that was committed before.
C21_CompletionSeesCommittedResponses ==
    [][\A i \in DOMAIN requests :
          (requests[i].op = "complete_session" /\ complete_session_commit(i)) =>
              requests[i].responses = ResponsesOfSession(requests[i].session_id)]_vars

(* ============================= applications ============================ *)
\* C22: no two stored applications share a (job, candidate) pair, also when
\* create_application requests interleave; a create_application for a pair
\* that has an application answers CONFLICT and changes nothing.
C22_OneApplicationPerPair ==
    /\ \A a, b \in DOMAIN applications :
          (/\ ApplicationExists(a)
           /\ applications[a].job_id = applications[b].job_id
           /\ applications[a].candidate_id = applications[b].candidate_id) => a = b
    /\ \A j \in JobIds, c \in 1..MaxCandidates :
          PairStored(j, c) =>
              /\ create_application_status(j, c) = 409
              /\ ~ENABLED (create_application(j, c, SOURCED) /\ vars' # vars)
              /\ ~ENABLED (create_application_load(j, c, SOURCED) /\ vars' # vars)

\* a request for a pair is in flight, past its check, while an application of
\* the pair is stored: its INSERT is about to be rejected
C22_Witness ==
    \E i \in DOMAIN requests :
        /\ requests[i].op = "create_application"
        /\ PairStored(requests[i].job_id, requests[i].candidate_id)
        /\ JobExists(requests[i].job_id)

AnswersTo(s, question_id) ==
    LET rs == response_for_question(ResponsesOfSession(s), question_id)
    IN  [k \in DOMAIN rs |-> rs[k].answer]

\* two sessions have the same responses to every gating question of a set
AgreeOnGating(s1, s2, set_id) ==
    \A i \in DOMAIN questions :
        (questions[i].set_id = set_id /\ IsGating(questions[i])) =>
            AnswersTo(s1, i) = AnswersTo(s2, i)

\* the session is COMPLETED and nothing was written to it since
CompletedAsStored(s) ==
    sessions[s].status = COMPLETED /\ history[s] \in {"completed", "recompleted"}

InSetOfSession(session_id, question_id) ==
    /\ SessionExists(session_id)
    /\ QuestionExists(question_id)
    /\ questions[question_id].set_id = sessions[session_id].set_id

\* C25: in every reachable state each stored response references a question
\* of the question set of its session, and a submit_response with a question
\* outside that question set stores nothing.
C25_ResponsesStayInSet ==
    /\ [](\A r \in DOMAIN responses :
             responses[r] # DeletedResponse =>
                 InSetOfSession(responses[r].session_id, responses[r].question_id))
    /\ [][\A sid \in BatchSessionIds, q \in QuestionIds :
             (~InSetOfSession(sid, q) /\ submit_response(sid, q, Yes)) =>
                 responses' = responses]_vars

(* ========================== generated questions ======================== *)
\* the reply is a usable JSON array: an array from which the request takes
\* at least one question text
UsableArray(content) ==
    /\ json_loads(content).type = "list"
    /\ ~question_texts(content).raised
    /\ question_texts(content).texts # << >>

\* C26: generate_and_store_jd_questions never stores a question with empty
\* text and a successful request stores at least one question; for a reply
\* that is not a usable JSON array it stores the lines of the reply that
\* contain "?", and when there is no such line it fails and leaves the
\* stored questions unchanged.
C26_GenerationFallsBack ==
    /\ \A q \in DOMAIN job_questions : job_questions[q].question_text # << >>
    /\ \A j \in JobIds, content \in Contents :
          JobExists(j) =>
              LET code == generate_and_store_jd_questions_status(j, TRUE, TRUE, content)
                  lines == FallbackLines(content.text)
              IN  /\ code = 201 => question_texts(content).texts # << >>
                  /\ (~UsableArray(content) /\ lines # << >>) =>
                        /\ code = 201
                        /\ question_texts(content).texts = lines
                  /\ (~UsableArray(content) /\ lines = << >>) =>
                        /\ code # 201
                        /\ ~ENABLED (/\ generate_and_store_jd_questions(j, TRUE, TRUE, content)
                                     /\ vars' # vars)

(* ============================== candidates ============================= *)
\* C27: in every reachable state no two candidates have the same email, also
\* when two create_candidate requests with one email interleave between
\* their check and their insert, and after update_candidate changed an email.
C27_EmailUnique ==
    \A a, b \in DOMAIN candidates :
        candidates[a].email = candidates[b].email => a = b

(* ===================== a fetch against a completion ==================== *)
\* C28: when get_test and complete_session run concurrently on a PENDING
\* session, no interleaving of their loads and commits leaves the session
\* IN_PROGRESS after the completion committed: a COMPLETED session stays
\* COMPLETED, and no session has a result while its status is IN_PROGRESS.
C28_StaleFetchKeepsCompleted ==
    /\ [](\A s \in DOMAIN sessions :
             sessions[s].status = IN_PROGRESS => sessions[s].result = NoResult)
    /\ [][\A s \in DOMAIN sessions :
             sessions[s].status = COMPLETED => sessions'[s].status = COMPLETED]_vars

(* ========================== repeat invitations ========================= *)
\* the COMPLETED sessions of an application
CompletedSessionsOf(a) ==
    {s \in DOMAIN sessions :
        sessions[s].application_id = a /\ sessions[s].status = COMPLETED}

\* the session of an application that was completed last
LastCompleted(a) ==
    CHOOSE s \in CompletedSessionsOf(a) :
        \A t \in CompletedSessionsOf(a) :
            sessions[t].completed_at <= sessions[s].completed_at

\* C29: when an application has several sessions, its status after any
\* sequence of completions is the outcome of the session completed last:
\* SCREENING_PASSED if and only if that completion produced SELECTED,
\* whatever the results of its other sessions are.
C29_StatusFollowsLastCompletion ==
    /\ [](\A a \in DOMAIN applications :
             CompletedSessionsOf(a) # {} =>
                 (applications[a].status = SCREENING_PASSED
                      <=> sessions[LastCompleted(a)].result = SELECTED))
    /\ [][\A s \in DOMAIN sessions :
             Completes(s) =>
                 applications'[sessions[s].application_id].status
                     = StatusFor(sessions'[s].result)]_vars

\* an application with two completed sessions: the earlier one SELECTED, the
\* later one REJECTED, and the application SCREENING_FAILED
C29_Witness ==
    \E s, t \in DOMAIN sessions :
        /\ sessions[s].application_id = sessions[t].application_id
        /\ sessions[s].status = COMPLETED
        /\ sessions[t].status = COMPLETED
        /\ sessions[s].result = SELECTED
        /\ sessions[t].result = REJECTED
        /\ sessions[s].completed_at < sessions[t].completed_at
        /\ applications[sessions[s].application_id].status = SCREENING_FAILED

(* ============================ absent answers =========================== *)
\* the response complete_session finds for a gating question of the session
\* has no answer
NullGatingAnswer(s) ==
    \E i \in DOMAIN questions :
        /\ questions[i].set_id = sessions[s].set_id
        /\ IsGating(questions[i])
        /\ response_for_question(ResponsesOfSession(s), i) # << >>
        /\ Head(response_for_question(ResponsesOfSession(s), i)).answer = None

\* C30: complete_session on a stored session with an application always
\* completes it; when the stored response to a gating question has a null
\* answer the session is completed as REJECTED, and the request does not fail
\* with an internal error that leaves the session uncompleted.
C30_NullAnswerRejects ==
    \A s \in SessionIds :
        (/\ SessionExists(s)
         /\ ApplicationExists(sessions[s].application_id)
         /\ clock <= MaxCompletions) =>
            /\ complete_session_status(s) = 200
            /\ ENABLED (complete_session(s) /\ sessions'[s].status = COMPLETED)
            /\ NullGatingAnswer(s) =>
                   ENABLED (complete_session(s) /\ sessions'[s].result = REJECTED)

====
